---- MODULE Spec2Model ----
(***************************************************************************)
(* Host <-> device tensor transfers of XlaDeviceContext                    *)
(* (tensorflow/compiler/jit/xla_device_context.cc).                        *)
(*                                                                         *)
(* One caller thread issues CopyCPUTensorToDevice / CopyDeviceTensorToCPU  *)
(* calls; the three se::Stream objects execute the operations enqueued on  *)
(* them in FIFO order, each stream at its own pace.  A call that blocks in *)
(* BlockHostUntilDone is split at the blocking point: the caller's         *)
(* position is pc.                                                         *)
(***************************************************************************)
EXTENDS Integers, Sequences, FiniteSets, TLC

\* ------------------------------------------------------------------ bounds
\* Number of CopyCPUTensorToDevice / CopyDeviceTensorToCPU calls explored.
MaxCalls == 2
\* Largest element count of a tensor (one byte per element).
MaxElems == 1
\* Number of kernels other threads launch on the compute stream.
MaxKernels == 1

\* ------------------------------------------------------------------ values
Handles == {"t1"}
StreamIds == {1, 2, 3}
Byte == {0, 1}
\* One-byte element types, and DT_VARIANT, for which XLA has no primitive type.
DTypes == {"DT_INT8", "DT_UINT8", "DT_VARIANT"}
Shapes == 0..MaxElems
CallIds == 1..MaxCalls

Bytes(n) == [1..n -> Byte]

\* A host Tensor: element count, element type, contents.
HostTensors == UNION {[n : {n}, dtype : DTypes, data : Bytes(n)] : n \in Shapes}

NoTensor == [n |-> 0, dtype |-> "none", data |-> <<>>]

\* tensorflow::Status.  stream is the stream an error message names (0: none).
Status(code, stream, cause) == [code |-> code, stream |-> stream, cause |-> cause]
OK == Status("OK", 0, "none")

\* An se::Event: the call that created it and what it is for.
NoEvent == [kind |-> "none", c |-> 0]
DefinitionEvent(c) == [kind |-> "definition", c |-> c]
DependencyEvent(c) == [kind |-> "dependency", c |-> c]

\* The errors a blocked or failed stream reports.
StreamFaults == {"dma_fault"}
\* The errors the layout-selection function may return.
LayoutErrors == {"InvalidArgument", "Unimplemented"}

VARIABLES
  transfer_as_literal_,     \* XlaDeviceContext::transfer_as_literal_
  stream_,                  \* the compute stream
  host_to_device_stream_,
  device_to_host_stream_,
  queue,                    \* per stream: the operations enqueued and not yet executed
  streamErr,                \* per stream: "none" or the error the stream is in
  fired,                    \* the events that have been recorded (executed)
  xla,                      \* per handle: the XlaTensor
  mem,                      \* per handle: contents of its device buffer
  calls,                    \* per call id: what the call did (history)
  ncalls,                   \* calls started so far
  pc,                       \* the caller thread: "idle", "h2d_block", "d2h_block"
  kernels,                  \* kernels launched so far
  completed,                \* calls whose host->device write has executed
  producer,                 \* per handle: the last call that wrote it with success
  staleRead                 \* a device read executed before its producing write

vars == <<transfer_as_literal_, stream_, host_to_device_stream_,
          device_to_host_stream_, queue, streamErr, fired, xla, mem, calls,
          ncalls, pc, kernels, completed, producer, staleRead>>

ctx == <<transfer_as_literal_, stream_, host_to_device_stream_,
         device_to_host_stream_>>

\* ---------------------------------------------------------------- XlaTensor
\* A freshly allocated XlaTensor: no shaped buffer, no definition event.
EmptyXlaTensor ==
  [has_shaped_buffer |-> FALSE, shape |-> 0, dtype |-> "none",
   definition_event |-> NoEvent, streams_defined_on |-> {},
   host_tensor |-> NoTensor, host_tensor_by |-> 0]

\* XlaDeviceAllocator::AllocateRaw ignores alignment and num_bytes.
AllocateRaw == EmptyXlaTensor

\* XlaTensor::AllocateShapedBuffer on success.
AllocateShapedBuffer(xt, dtype, shape) ==
  [xt EXCEPT !.has_shaped_buffer = TRUE, !.shape = shape, !.dtype = dtype]

\* XlaTensor::ResetDefinitionEvent.
ResetDefinitionEvent(xt, event, s) ==
  [xt EXCEPT !.definition_event = event, !.streams_defined_on = {s}]

\* XlaTensor::set_host_tensor; c is the call that caches the value.
set_host_tensor(xt, t, c) ==
  [xt EXCEPT !.host_tensor = t, !.host_tensor_by = c]

\* ------------------------------------------------------------------ streams
Op(k, c, h, e, data) == [k |-> k, c |-> c, h |-> h, e |-> e, data |-> data]

Enqueue(q, s, op) == [q EXCEPT ![s] = Append(@, op)]

ThenMemcpyH2D(q, s, c, h, bytes) == Enqueue(q, s, Op("memcpy_h2d", c, h, NoEvent, bytes))
ThenMemcpyD2H(q, s, c, h) == Enqueue(q, s, Op("memcpy_d2h", c, h, NoEvent, <<>>))
ThenRecordEvent(q, s, e) == Enqueue(q, s, Op("record", e.c, "none", e, <<>>))
ThenWaitForEvent(q, s, e) == Enqueue(q, s, Op("wait", e.c, "none", e, <<>>))
ThenDoHostCallback(q, s, c) == Enqueue(q, s, Op("host_callback", c, "none", NoEvent, <<>>))

\* Stream::ThenWaitFor(Stream* other): everything enqueued on other so far
\* completes before anything enqueued on s from now on starts.
ThenWaitForStream(q, s, other, e) ==
  IF s = other THEN q ELSE ThenWaitForEvent(ThenRecordEvent(q, other, e), s, e)

\* XlaTensor::WaitForDefinitionEventOnStream: the new queue and XlaTensor.
WaitForDefinitionEventOnStream(q, xt, s) ==
  IF xt.definition_event = NoEvent \/ s \in xt.streams_defined_on
    THEN [q |-> q, xt |-> xt]
    ELSE [q |-> ThenWaitForEvent(q, s, xt.definition_event),
          xt |-> [xt EXCEPT !.streams_defined_on = @ \cup {s}]]

\* XlaDeviceContext::UseMultipleStreams.
UseMultipleStreams == stream_ # host_to_device_stream_

\* Operations of call c still pending on any stream.
Pending(q, c, kinds) ==
  UNION {{<<s, i>> : i \in {j \in DOMAIN q[s] : q[s][j].c = c /\ q[s][j].k \in kinds}}
           : s \in StreamIds}

TransferKinds == {"memcpy_h2d", "memcpy_d2h", "literal_h2d", "literal_d2h"}

\* The bytes a device buffer holds after n = Len(bytes) bytes are copied to
\* its start.  Writing past the end of the buffer is undefined: any contents.
DevWrite(buf, bytes) ==
  IF Len(bytes) <= Len(buf)
    THEN {[i \in 1..Len(buf) |-> IF i <= Len(bytes) THEN bytes[i] ELSE buf[i]]}
    ELSE Bytes(Len(buf))

\* The bytes read when n bytes are copied from the start of a device buffer.
\* Reading past the end of the buffer is undefined: any bytes there.
DevRead(buf, n) ==
  IF n <= Len(buf)
    THEN {[i \in 1..n |-> buf[i]]}
    ELSE {b \in Bytes(n) : \A i \in 1..Len(buf) : b[i] = buf[i]}

\* ---------------------------------------------------------------- call history
NoCall ==
  [op |-> "none", h |-> "none", empty |-> FALSE, literal |-> FALSE,
   cpu |-> NoTensor, returned |-> FALSE, doneCount |-> 0, doneStatus |-> OK,
   pendingAtDone |-> 0, doneBeforeReturn |-> FALSE, enq |-> 0,
   allocated |-> FALSE, drained |-> FALSE, refs |-> 0, unrefs |-> 0,
   after |-> 0, event |-> NoEvent, layout |-> OK, block_status |-> "none",
   shape |-> 0, reported |-> OK, refsAtDone |-> 0, event_init |-> "none",
   alloc |-> OK, access_now |-> TRUE, kernels_before |-> 0]

\* done(status) invoked while the queues are q.
Done(cr, c, status, q) ==
  [cr EXCEPT !.doneCount = @ + 1, !.doneStatus = status,
             !.pendingAtDone = Cardinality(Pending(q, c, TransferKinds)),
             !.doneBeforeReturn = ~cr.returned, !.refsAtDone = cr.refs]

Return(cr) == [cr EXCEPT !.returned = TRUE]

\* ------------------------------------------------------------------- Init
\* XlaDeviceContext::XlaDeviceContext: three non-null streams, which may be
\* one stream (single-stream configuration) or distinct ones.
StreamConfigs ==
  {<<1, 1, 1>>, <<1, 2, 3>>, <<1, 2, 2>>, <<1, 2, 1>>, <<1, 1, 2>>}

Init ==
  /\ transfer_as_literal_ \in BOOLEAN
  /\ \E cfg \in StreamConfigs :
       /\ stream_ = cfg[1]
       /\ host_to_device_stream_ = cfg[2]
       /\ device_to_host_stream_ = cfg[3]
  /\ queue = [s \in StreamIds |-> <<>>]
  /\ streamErr = [s \in StreamIds |-> "none"]
  /\ fired = {}
  /\ xla = [h \in Handles |-> AllocateRaw]
  /\ mem = [h \in Handles |-> <<>>]
  /\ calls = [c \in CallIds |-> NoCall]
  /\ ncalls = 0
  /\ pc = "idle"
  /\ kernels = 0
  /\ completed = {}
  /\ producer = [h \in Handles |-> 0]
  /\ staleRead = FALSE


\* ------------------------------------------------- external collaborators
\* shape_representation_fn_(shape, dtype): the identity when none was
\* supplied; a supplied function may also reject the shape.
ShapeRepresentationFn(shape, dtype) ==
  {[ok |-> TRUE, shape |-> shape, status |-> OK]}
    \cup {[ok |-> FALSE, shape |-> 0, status |-> Status(e, 0, "shape_representation_fn")]
            : e \in LayoutErrors}

\* TensorShapeToXLAShape: fails for an element type XLA cannot represent.
TensorShapeToXLAShape(dtype) ==
  IF dtype = "DT_VARIANT"
    THEN Status("InvalidArgument", 0, "TensorShapeToXLAShape")
    ELSE OK

\* The outcomes of binding xt's device buffer for (dtype, shape): the bound
\* XlaTensor with the buffer's (uninitialised, hence arbitrary) contents, or
\* the allocation error.
AllocationResults(xt, dtype, shape) ==
  {[status |-> Status("ResourceExhausted", 0, "AllocateShapedBuffer"),
    xt |-> xt, mem |-> <<>>]}
    \cup (IF TensorShapeToXLAShape(dtype) = OK
            THEN {[status |-> OK, xt |-> AllocateShapedBuffer(xt, dtype, shape), mem |-> m]
                    : m \in Bytes(shape)}
            ELSE {})

TotalLen(q) == Len(q[1]) + Len(q[2]) + Len(q[3])

\* ----------------------------------------------- TransferLiteralToDevice
\* Lines 102-108 with the event recorded on the compute stream.
RecordDefinitionEvent_OnComputeStream(q, xt, c) ==
  [q |-> ThenRecordEvent(q, stream_, DefinitionEvent(c)),
   xt |-> ResetDefinitionEvent(xt, DefinitionEvent(c), host_to_device_stream_)]

\* Lines 102-108 keeping a definition event the XlaTensor already has.
RecordDefinitionEvent_KeepsFirst(q, xt, c) ==
  [q |-> ThenRecordEvent(q, host_to_device_stream_, DefinitionEvent(c)),
   xt |-> IF xt.definition_event = NoEvent
            THEN ResetDefinitionEvent(xt, DefinitionEvent(c), host_to_device_stream_)
            ELSE xt]

\* Lines 102-108: record the completion event on the host->device stream and
\* make it the XlaTensor's definition event.
RecordDefinitionEvent(q, xt, c) ==
  [q |-> ThenRecordEvent(q, host_to_device_stream_, DefinitionEvent(c)),
   xt |-> ResetDefinitionEvent(xt, DefinitionEvent(c), host_to_device_stream_)]

\* Lines 94-99 left out: the transfer is issued without the wait.
WaitForComputeStream_Never(q, c, canAccessNow) == q

\* Lines 94-99: order the transfer after the compute stream's work in flight.
WaitForComputeStream(q, c, canAccessNow) ==
  IF UseMultipleStreams /\ ~canAccessNow
    THEN ThenWaitForStream(q, host_to_device_stream_, stream_, DependencyEvent(c))
    ELSE q

\* Line 104 without the check: the event is used whether or not Init succeeded.
EventInitStatus_Unchecked(eventOk) == OK

\* Line 104, TF_RET_CHECK(event->Init()): an Internal error is returned when
\* the event fails to initialise.
EventInitStatus(eventOk) ==
  IF eventOk THEN OK ELSE Status("Internal", 0, "Event failed to initialize!")

\* The status returned, the queues, the XlaTensor, the references the call
\* holds on the host tensor and what event->Init() returned, if it was called,
\* when TransferLiteralToDevice returns.
\* TransferLiteralToDeviceAsync accepts only a literal of the buffer's shape.
TransferLiteralToDevice(q, xt, c, h, host_tensor, canAccessNow, issueOk, eventOk) ==
  IF TensorShapeToXLAShape(host_tensor.dtype) # OK
    THEN [status |-> TensorShapeToXLAShape(host_tensor.dtype), q |-> q, xt |-> xt,
          refs |-> 0, event_init |-> "none"]
    ELSE
      LET q1 == WaitForComputeStream(q, c, canAccessNow)
          q2 == Enqueue(q1, host_to_device_stream_,
                        Op("literal_h2d", c, h, NoEvent, host_tensor.data))
          ev == IF UseMultipleStreams
                  THEN RecordDefinitionEvent(q2, xt, c)
                  ELSE [q |-> q2, xt |-> xt]
      IN IF ~(issueOk /\ host_tensor.n = xt.shape)
           THEN [status |-> Status("Internal", 0, "TransferLiteralToDeviceAsync"),
                 q |-> q1, xt |-> xt, refs |-> 1, event_init |-> "none"]
         ELSE IF UseMultipleStreams /\ EventInitStatus(eventOk) # OK
           THEN [status |-> EventInitStatus(eventOk),
                 q |-> q2, xt |-> xt, refs |-> 1, event_init |-> "failed"]
         ELSE [status |-> OK,
               q |-> ThenDoHostCallback(ev.q, host_to_device_stream_, c),
               xt |-> ev.xt, refs |-> 1,
               event_init |-> IF ~UseMultipleStreams THEN "none"
                              ELSE IF eventOk THEN "ok" ELSE "failed"]

\* ------------------------------------------------ CopyCPUTensorToDevice
\* Line 169 without the test: every copy allocates the device buffer.
NeedsBinding_Always(xt) == TRUE

\* Line 169: the device buffer is allocated only for an XlaTensor without one.
NeedsBinding(xt) == ~xt.has_shaped_buffer

\* Lines 193, 238 without the wait: the caller goes on at once.
BlockHostUntilDone_NoWait(s) == TRUE

\* Stream::BlockHostUntilDone (lines 193, 238) returns once stream s has
\* executed everything enqueued on it.
BlockHostUntilDone(s) == queue[s] = <<>>

\* The call's synchronous part ends: its record, the queues, the XlaTensor.
Commit(c, h, cr, q, xt) ==
  /\ calls' = [calls EXCEPT ![c] = [cr EXCEPT !.enq = @ + TotalLen(q) - TotalLen(queue)]]
  /\ queue' = q
  /\ xla' = [xla EXCEPT ![h] = xt]

\* Lines 194-198 naming the compute stream, as line 241 does.
H2DBlockStatus_ComputeStream(block_status) ==
  IF block_status # "none"
    THEN Status("Internal", stream_, block_status)
    ELSE OK

\* Lines 194-198: the status of a failed drain of the host->device stream.
H2DBlockStatus(block_status) ==
  IF block_status # "none"
    THEN Status("Internal", host_to_device_stream_, block_status)
    ELSE OK

\* Lines 189-191 followed by the recording of a completion event, as the
\* structured path does at line 105.
RawCopyToDevice_RecordsEvent(q, c, h, cpu_tensor) ==
  ThenRecordEvent(ThenMemcpyH2D(q, host_to_device_stream_, c, h, cpu_tensor.data),
                  host_to_device_stream_, DefinitionEvent(c))

\* Lines 189-191 with the byte count one short.
RawCopyToDevice_Short(q, c, h, cpu_tensor) ==
  ThenMemcpyH2D(q, host_to_device_stream_, c, h,
                SubSeq(cpu_tensor.data, 1, cpu_tensor.n - 1))

\* Lines 189-191: the raw copy, sized by the host tensor's total bytes.
RawCopyToDevice(q, c, h, cpu_tensor) ==
  ThenMemcpyH2D(q, host_to_device_stream_, c, h, cpu_tensor.data)

\* Lines 142-146: a host tensor without elements.
CopyEmptyToDevice(cr, c) == Return(Done(cr, c, OK, queue))

\* Lines 164-167 reporting an error of the copy's own instead.
LayoutFailed_Wrapped(cr, c, layout) ==
  Return(Done(cr, c, Status("Internal", 0, "shape_representation_fn"), queue))

\* Lines 164-167: the layout function failed.
LayoutFailed(cr, c, layout) == Return(Done(cr, c, layout.status, queue))

\* Lines 173-176 reporting success.
AllocationFailed_ReportedOK(cr, c, s) == Return(Done(cr, c, OK, queue))

\* Lines 173-176: AllocateShapedBuffer failed with status s.
AllocationFailed(cr, c, s) == Return(Done(cr, c, s, queue))

\* Lines 182-186 going on to done's common call with a default status.
ReshapeFailed_ReportedOK(cr, c) == Return(Done(cr, c, OK, queue))

\* Lines 182-186: Tensor::CopyFrom refused the layout-resolved shape.
ReshapeFailed(cr, c) ==
  Return(Done(cr, c, Status("Internal", 0, "Tensor::CopyFrom"), queue))

\* Lines 200-203 with a done(status) of its own for a failed transfer that
\* does not return: done is called again at line 203.
FinishLiteralCopy_DoneTwice(cr, c, r, cpu_tensor) ==
  LET cr1 == [cr EXCEPT !.refs = r.refs]
      cr2 == IF r.status # OK THEN Done(cr1, c, r.status, r.q) ELSE cr1
  IN [cr |-> Return(Done(cr2, c, r.status, r.q)),
      xt |-> IF r.status = OK THEN set_host_tensor(r.xt, cpu_tensor, c) ELSE r.xt]

\* Lines 200-203 with the status of the transfer dropped: done(OK) always.
FinishLiteralCopy_StatusDropped(cr, c, r, cpu_tensor) ==
  [cr |-> Return(Done([cr EXCEPT !.refs = r.refs], c, OK, r.q)),
   xt |-> set_host_tensor(r.xt, cpu_tensor, c)]

\* Lines 200-203 of the structured path: cache the host tensor, call done.
FinishLiteralCopy(cr, c, r, cpu_tensor) ==
  [cr |-> Return(Done([cr EXCEPT !.refs = r.refs], c, r.status, r.q)),
   xt |-> IF r.status = OK THEN set_host_tensor(r.xt, cpu_tensor, c) ELSE r.xt]

CopyCPUTensorToDevice ==
  /\ pc = "idle"
  /\ ncalls < MaxCalls
  /\ \E h \in Handles, cpu_tensor \in HostTensors, dshape \in Shapes :
       LET c == ncalls + 1
           cr0 == [NoCall EXCEPT !.op = "CopyCPUTensorToDevice", !.h = h,
                                 !.cpu = cpu_tensor, !.empty = (cpu_tensor.n = 0),
                                 !.literal = transfer_as_literal_]
       IN /\ ncalls' = c
          /\ UNCHANGED <<ctx, streamErr, fired, kernels, completed, staleRead>>
          /\ IF cpu_tensor.n = 0
               THEN /\ Commit(c, h, CopyEmptyToDevice(cr0, c), queue, xla[h])
                    /\ UNCHANGED <<mem, pc, producer>>
               ELSE \E layout \in ShapeRepresentationFn(dshape, cpu_tensor.dtype) :
                 IF ~layout.ok
                   THEN /\ Commit(c, h,
                                    LayoutFailed([cr0 EXCEPT !.layout = layout.status],
                                                 c, layout),
                                    queue, xla[h])
                        /\ UNCHANGED <<mem, pc, producer>>
                   ELSE \E a \in (IF NeedsBinding(xla[h])
                                    THEN AllocationResults(xla[h], cpu_tensor.dtype,
                                                           layout.shape)
                                    ELSE {[status |-> OK, xt |-> xla[h], mem |-> mem[h]]}) :
                     LET cr1 == [cr0 EXCEPT !.allocated =
                                    NeedsBinding(xla[h]) /\ a.status = OK,
                                            !.shape = layout.shape,
                                            !.alloc = a.status]
                     IN IF a.status # OK
                          THEN /\ Commit(c, h, AllocationFailed(cr1, c, a.status),
                                         queue, a.xt)
                               /\ UNCHANGED <<mem, pc, producer>>
                        ELSE IF transfer_as_literal_
                          THEN IF cpu_tensor.n # layout.shape
                                 THEN /\ Commit(c, h, ReshapeFailed(cr1, c), queue, a.xt)
                                      /\ mem' = [mem EXCEPT ![h] = a.mem]
                                      /\ UNCHANGED <<pc, producer>>
                                 ELSE \E canAccessNow, issueOk, eventOk \in BOOLEAN :
                                   LET r == TransferLiteralToDevice(queue, a.xt, c, h,
                                              cpu_tensor, canAccessNow, issueOk, eventOk)
                                       f == FinishLiteralCopy(cr1, c, r, cpu_tensor)
                                   IN /\ Commit(c, h,
                                           [f.cr EXCEPT !.event = f.xt.definition_event,
                                                        !.event_init = r.event_init,
                                                        !.access_now = canAccessNow,
                                                        !.kernels_before = kernels],
                                           r.q, f.xt)
                                      /\ mem' = [mem EXCEPT ![h] = a.mem]
                                      /\ producer' = IF r.status = OK
                                                       THEN [producer EXCEPT ![h] = c]
                                                       ELSE producer
                                      /\ UNCHANGED pc
                          ELSE /\ Commit(c, h, cr1,
                                         RawCopyToDevice(queue, c, h, cpu_tensor), a.xt)
                               /\ mem' = [mem EXCEPT ![h] = a.mem]
                               /\ pc' = "h2d_block"
                               /\ UNCHANGED producer

\* BlockHostUntilDone on the host->device stream returns (line 193); the
\* rest of the raw path, lines 194-203.
CopyCPUTensorToDeviceUnblock ==
  /\ pc = "h2d_block"
  /\ BlockHostUntilDone(host_to_device_stream_)
  /\ LET c == ncalls
         h == calls[c].h
         status == H2DBlockStatus(streamErr[host_to_device_stream_])
         cr == [calls[c] EXCEPT !.drained = TRUE,
                                !.block_status = streamErr[host_to_device_stream_]]
     IN /\ Commit(c, h, Return(Done(cr, c, status, queue)), queue,
                  IF status = OK THEN set_host_tensor(xla[h], cr.cpu, c) ELSE xla[h])
        /\ producer' = IF status = OK THEN [producer EXCEPT ![h] = c] ELSE producer
  /\ pc' = "idle"
  /\ UNCHANGED <<ctx, streamErr, fired, mem, ncalls, kernels, completed, staleRead>>


\* ---------------------------------------------- TransferLiteralFromDevice
\* Lines 116-136 up to the return: the reference on the device tensor is
\* taken and the structured read is issued with its completion callback.
TransferLiteralFromDevice(q, cr, c, h) ==
  [q |-> Enqueue(q, device_to_host_stream_, Op("literal_d2h", c, h, NoEvent, <<>>)),
   cr |-> [cr EXCEPT !.refs = 1]]

\* Lines 128-135 in the other order: done(status), then ref.Unref().
TransferLiteralFromDeviceCallback_DoneFirst(cr, c, status, q) ==
  LET d == Done(cr, c, status, q)
  IN [d EXCEPT !.refs = @ - 1, !.unrefs = @ + 1]

\* Lines 128-135, the completion callback: ref.Unref(), then done(status).
TransferLiteralFromDeviceCallback(cr, c, status, q) ==
  Done([cr EXCEPT !.refs = @ - 1, !.unrefs = @ + 1], c, status, q)

\* ------------------------------------------------ CopyDeviceTensorToCPU
\* Line 229 left out: the read is issued without waiting for the event.
DefinitionEventWait_Skipped(q, xt) == [q |-> q, xt |-> xt]

\* Line 229: make the device->host stream wait for the definition event.
DefinitionEventWait(q, xt) ==
  WaitForDefinitionEventOnStream(q, xt, device_to_host_stream_)

\* Lines 239-243: the status of a failed drain of the device->host stream.
D2HBlockStatus(block_status) ==
  IF block_status # "none"
    THEN Status("Internal", stream_, block_status)
    ELSE OK

\* Lines 210-214 without the early return: the copy is issued all the same.
CopyEmptyToCPU_NoDone(cr, c) == Return(cr)

\* Lines 210-214: a device tensor without elements.
CopyEmptyToCPU(cr, c) == Return(Done(cr, c, OK, queue))

\* A device tensor with elements has a device buffer: DeviceMemoryFromTensor
\* (line 225) reads it.
CopyDeviceTensorToCPU ==
  /\ pc = "idle"
  /\ ncalls < MaxCalls
  /\ \E h \in Handles, cpu_tensor \in HostTensors, dshape \in Shapes :
       LET c == ncalls + 1
           cr0 == [NoCall EXCEPT !.op = "CopyDeviceTensorToCPU", !.h = h,
                                 !.cpu = cpu_tensor, !.empty = (dshape = 0),
                                 !.literal = transfer_as_literal_,
                                 !.after = producer[h]]
           w == DefinitionEventWait(queue, xla[h])
       IN /\ ncalls' = c
          /\ UNCHANGED <<ctx, streamErr, fired, mem, kernels, completed, producer,
                         staleRead>>
          /\ IF dshape = 0
               THEN /\ Commit(c, h, CopyEmptyToCPU(cr0, c), queue, xla[h])
                    /\ UNCHANGED pc
               ELSE /\ xla[h].has_shaped_buffer
                    /\ IF transfer_as_literal_
                         THEN IF TensorShapeToXLAShape(cpu_tensor.dtype) # OK
                                THEN \* TF_CHECK_OK, line 120
                                     /\ Commit(c, h, cr0, w.q, w.xt)
                                     /\ pc' = "aborted"
                                ELSE LET t == TransferLiteralFromDevice(w.q, cr0, c, h)
                                     IN /\ Commit(c, h, Return(t.cr), t.q, w.xt)
                                        /\ UNCHANGED pc
                         ELSE /\ Commit(c, h, cr0,
                                        ThenMemcpyD2H(w.q, device_to_host_stream_, c, h),
                                        w.xt)
                              /\ pc' = "d2h_block"

\* BlockHostUntilDone on the device->host stream returns (line 238); the
\* rest of the raw path, lines 239-246.
CopyDeviceTensorToCPUUnblock ==
  /\ pc = "d2h_block"
  /\ BlockHostUntilDone(device_to_host_stream_)
  /\ LET c == ncalls
         status == D2HBlockStatus(streamErr[device_to_host_stream_])
         cr == [calls[c] EXCEPT !.drained = TRUE,
                                !.block_status = streamErr[device_to_host_stream_]]
     IN Commit(c, cr.h, Return(Done(cr, c, status, queue)), queue, xla[cr.h])
  /\ pc' = "idle"
  /\ UNCHANGED <<ctx, streamErr, fired, mem, ncalls, kernels, completed, producer,
                 staleRead>>

\* --------------------------------------------------- stream execution
\* Stream s executes the operation at the head of its queue.
HeadIs(s, k) == queue[s] # <<>> /\ Head(queue[s]).k = k /\ pc # "aborted"
Pop(s) == [queue EXCEPT ![s] = Tail(@)]
Faults == {"none"} \cup StreamFaults
Fail(s, fault) == IF fault = "none" THEN streamErr ELSE [streamErr EXCEPT ![s] = fault]

\* A host->device write (raw or structured) executes, or fails.
ExecWrite(s, k) ==
  /\ HeadIs(s, k)
  /\ LET op == Head(queue[s])
     IN \E fault \in Faults :
          /\ streamErr' = Fail(s, fault)
          /\ IF fault = "none"
               THEN \E m \in DevWrite(mem[op.h], op.data) : mem' = [mem EXCEPT ![op.h] = m]
               ELSE UNCHANGED mem
          /\ completed' = completed \cup {op.c}
  /\ queue' = Pop(s)
  /\ UNCHANGED <<ctx, fired, xla, calls, ncalls, pc, kernels, producer, staleRead>>

ExecMemcpyH2D == \E s \in StreamIds : ExecWrite(s, "memcpy_h2d")

ExecLiteralH2D == \E s \in StreamIds : ExecWrite(s, "literal_h2d")

\* The read of call c executes before the write it must observe.
Stale(c) == calls[c].after # 0 /\ calls[c].after \notin completed

\* The raw device->host copy executes: total_bytes = cpu_tensor->TotalBytes().
ExecMemcpyD2H ==
  \E s \in StreamIds :
    /\ HeadIs(s, "memcpy_d2h")
    /\ LET op == Head(queue[s])
       IN \E fault \in Faults :
            /\ streamErr' = Fail(s, fault)
            /\ IF fault = "none"
                 THEN \E b \in DevRead(mem[op.h], calls[op.c].cpu.n) :
                        calls' = [calls EXCEPT ![op.c].cpu.data = b]
                 ELSE UNCHANGED calls
            /\ staleRead' = (staleRead \/ Stale(op.c))
    /\ queue' = Pop(s)
    /\ UNCHANGED <<ctx, fired, xla, mem, ncalls, pc, kernels, completed, producer>>

\* The structured device->host transfer completes with a status and runs its
\* completion callback with it.
ExecLiteralD2H ==
  \E s \in StreamIds :
    /\ HeadIs(s, "literal_d2h")
    /\ LET op == Head(queue[s])
           cr == calls[op.c]
       IN \E fault \in Faults :
            LET status == IF fault # "none" THEN Status("Internal", 0, fault)
                          ELSE IF cr.cpu.n # Len(mem[op.h])
                            THEN Status("InvalidArgument", 0, "TransferLiteralFromDevice")
                          ELSE OK
                cr1 == [cr EXCEPT !.reported = status,
                                  !.cpu.data = IF status = OK THEN mem[op.h] ELSE @]
            IN /\ streamErr' = Fail(s, fault)
               /\ calls' = [calls EXCEPT ![op.c] =
                      TransferLiteralFromDeviceCallback(cr1, op.c, status, Pop(s))]
               /\ staleRead' = (staleRead \/ Stale(op.c))
    /\ queue' = Pop(s)
    /\ UNCHANGED <<ctx, fired, xla, mem, ncalls, pc, kernels, completed, producer>>

ExecRecordEvent ==
  \E s \in StreamIds :
    /\ HeadIs(s, "record")
    /\ fired' = fired \cup {Head(queue[s]).e}
    /\ queue' = Pop(s)
    /\ UNCHANGED <<ctx, streamErr, xla, mem, calls, ncalls, pc, kernels, completed,
                   producer, staleRead>>

\* A stream waiting for an event proceeds once the event has been recorded.
ExecWaitForEvent ==
  \E s \in StreamIds :
    /\ HeadIs(s, "wait")
    /\ Head(queue[s]).e \in fired
    /\ queue' = Pop(s)
    /\ UNCHANGED <<ctx, streamErr, fired, xla, mem, calls, ncalls, pc, kernels,
                   completed, producer, staleRead>>

\* The host callback of line 111: ref.Unref().
ExecHostCallback ==
  \E s \in StreamIds :
    /\ HeadIs(s, "host_callback")
    /\ calls' = [calls EXCEPT ![Head(queue[s]).c].refs = @ - 1,
                              ![Head(queue[s]).c].unrefs = @ + 1]
    /\ queue' = Pop(s)
    /\ UNCHANGED <<ctx, streamErr, fired, xla, mem, ncalls, pc, kernels, completed,
                   producer, staleRead>>

\* Another thread launches a kernel on the compute stream.
LaunchKernel ==
  /\ pc # "aborted"
  /\ kernels < MaxKernels
  /\ kernels' = kernels + 1
  /\ queue' = Enqueue(queue, stream_, Op("kernel", 0, "none", NoEvent, <<>>))
  /\ UNCHANGED <<ctx, streamErr, fired, xla, mem, calls, ncalls, pc, completed,
                 producer, staleRead>>

ExecKernel ==
  \E s \in StreamIds :
    /\ HeadIs(s, "kernel")
    /\ queue' = Pop(s)
    /\ UNCHANGED <<ctx, streamErr, fired, xla, mem, calls, ncalls, pc, kernels,
                   completed, producer, staleRead>>

Next ==
  \/ CopyCPUTensorToDevice
  \/ CopyCPUTensorToDeviceUnblock
  \/ CopyDeviceTensorToCPU
  \/ CopyDeviceTensorToCPUUnblock
  \/ ExecMemcpyH2D
  \/ ExecLiteralH2D
  \/ ExecMemcpyD2H
  \/ ExecLiteralD2H
  \/ ExecRecordEvent
  \/ ExecWaitForEvent
  \/ ExecHostCallback
  \/ LaunchKernel
  \/ ExecKernel

Spec == Init /\ [][Next]_vars


\* ============================================================ properties
IsH2D(c) == calls[c].op = "CopyCPUTensorToDevice"
IsD2H(c) == calls[c].op = "CopyDeviceTensorToCPU"
NoStreamError == \A s \in StreamIds : streamErr[s] = "none"

\* The read of call c, while pending on the device->host stream, has the
\* definition event of the write it must observe ahead of it: the event has
\* fired, or the stream reaches a wait for it (or, when the write's stream is
\* this stream, its recording) before the read.
ReadWaitsForDefinitionEvent(c) ==
  LET q == queue[device_to_host_stream_]
      e == DefinitionEvent(calls[c].after)
  IN \A i \in DOMAIN q :
       (q[i].c = c /\ q[i].k \in {"literal_d2h", "memcpy_d2h"}) =>
         \/ e \in fired
         \/ \E j \in 1..(i - 1) : q[j].e = e /\ q[j].k \in {"wait", "record"}

\* C1: structured mode, multi-stream configuration: every CopyDeviceTensorToCPU
\* on a handle written by an earlier successful CopyCPUTensorToDevice puts the
\* read behind the handle's definition event on the device->host stream, and
\* no read ever executes before the write that produced the handle has.
C1_ReadAfterDefinitionEvent ==
  (transfer_as_literal_ /\ UseMultipleStreams) =>
    /\ ~staleRead
    /\ \A c \in CallIds :
         (IsD2H(c) /\ calls[c].after # 0) => ReadWaitsForDefinitionEvent(c)

C1_Witness ==
  /\ transfer_as_literal_ /\ UseMultipleStreams
  /\ device_to_host_stream_ # host_to_device_stream_
  /\ \E c \in CallIds :
       /\ IsD2H(c) /\ calls[c].after # 0
       /\ calls[c].doneCount = 1 /\ calls[c].doneStatus = OK

\* A raw CopyDeviceTensorToCPU c that returned success and read back the
\* handle written by the raw CopyCPUTensorToDevice calls[c].after, into a host
\* buffer of the same byte size.
RoundTrip(c) ==
  /\ ~transfer_as_literal_ /\ NoStreamError
  /\ IsD2H(c) /\ ~calls[c].empty /\ calls[c].returned /\ calls[c].doneStatus = OK
  /\ calls[c].after # 0
  /\ calls[calls[c].after].cpu.n = calls[c].cpu.n

EmptyCallStep ==
  /\ ncalls' = ncalls + 1
  /\ calls'[ncalls'].empty

\* C3: a zero-element CopyCPUTensorToDevice or CopyDeviceTensorToCPU calls
\* done(OK) before it returns, allocates nothing, enqueues nothing and leaves
\* every XlaTensor and device buffer as it was.
C3_EmptyTransferIsNoOp ==
  [][EmptyCallStep =>
       /\ calls'[ncalls'].returned
       /\ calls'[ncalls'].doneCount = 1
       /\ calls'[ncalls'].doneBeforeReturn
       /\ calls'[ncalls'].doneStatus = OK
       /\ ~calls'[ncalls'].allocated
       /\ calls'[ncalls'].enq = 0
       /\ UNCHANGED <<queue, xla, mem, pc>>]_vars

C3_Witness ==
  \E c1, c2 \in CallIds, h \in Handles :
    /\ IsH2D(c1) /\ calls[c1].empty /\ calls[c1].returned
    /\ IsD2H(c2) /\ calls[c2].empty /\ calls[c2].returned


\* C4: an XlaTensor that has a device buffer keeps it, with the shape and the
\* element type it was bound with, and no later call allocates for it again.
C4_BoundOnceShapeFixed ==
  [][\A h \in Handles :
       xla[h].has_shaped_buffer =>
         /\ xla'[h].has_shaped_buffer
         /\ xla'[h].shape = xla[h].shape
         /\ xla'[h].dtype = xla[h].dtype
         /\ Len(mem'[h]) = Len(mem[h])
         /\ \A c \in CallIds :
              (calls'[c].h = h /\ calls'[c].allocated) => calls[c].allocated]_vars

C4_Witness ==
  \E c1, c2 \in CallIds :
    /\ c1 < c2 /\ IsH2D(c1) /\ IsH2D(c2) /\ calls[c1].h = calls[c2].h
    /\ calls[c1].allocated
    /\ ~calls[c2].empty /\ calls[c2].returned /\ calls[c2].enq > 0
    /\ calls[c2].shape # xla[calls[c2].h].shape

\* A structured CopyCPUTensorToDevice c that returned success.
LiteralCopyOK(c) ==
  /\ IsH2D(c) /\ calls[c].literal /\ ~calls[c].empty
  /\ calls[c].returned /\ calls[c].doneStatus = OK

\* C5: structured mode, multi-stream configuration: a non-empty
\* CopyCPUTensorToDevice that returns success leaves its own definition event
\* on the handle, recorded on the host->device stream behind the transfer, so
\* the event never fires before the write has executed.
C5_DefinitionEventAfterTransfer ==
  (transfer_as_literal_ /\ UseMultipleStreams) =>
    \A c \in CallIds :
      LiteralCopyOK(c) =>
        /\ calls[c].event = DefinitionEvent(c)
        /\ DefinitionEvent(c) \in fired => c \in completed
        /\ LET q == queue[host_to_device_stream_]
           IN \A i \in DOMAIN q :
                (q[i].k = "literal_h2d" /\ q[i].c = c) =>
                  \E j \in (i + 1)..Len(q) :
                    q[j].k = "record" /\ q[j].e = DefinitionEvent(c)

C5_Witness ==
  /\ transfer_as_literal_ /\ UseMultipleStreams
  /\ \E c \in CallIds : LiteralCopyOK(c) /\ DefinitionEvent(c) \in fired

\* A raw call that issued its copy.
RawTransfer(c) ==
  /\ calls[c].op # "none" /\ ~calls[c].literal /\ ~calls[c].empty
  /\ calls[c].enq > 0

\* C6: a raw call that issued its copy calls done exactly once, before it
\* returns, after BlockHostUntilDone on the copy's stream has returned, when
\* nothing of the copy is pending any more.
C6_RawDoneAfterDrain ==
  \A c \in CallIds :
    RawTransfer(c) =>
      /\ calls[c].doneCount <= 1
      /\ calls[c].returned => (calls[c].doneCount = 1 /\ calls[c].doneBeforeReturn)
      /\ calls[c].doneCount = 1 => (calls[c].drained /\ calls[c].pendingAtDone = 0)
      /\ calls[c].drained => Pending(queue, c, TransferKinds) = {}

C6_Witness ==
  \E c1, c2 \in CallIds :
    /\ RawTransfer(c1) /\ IsH2D(c1) /\ calls[c1].doneCount = 1
    /\ RawTransfer(c2) /\ IsD2H(c2) /\ calls[c2].doneCount = 1

\* A step in which CopyCPUTensorToDevice is called and the layout function fails.
LayoutFailureStep ==
  /\ ncalls' = ncalls + 1
  /\ calls'[ncalls'].layout # OK

\* C7: when the layout function fails, done gets the function's own error,
\* nothing is allocated, nothing is enqueued and the XlaTensor is untouched.
C7_LayoutFailureStopsTheCopy ==
  [][LayoutFailureStep =>
       /\ calls'[ncalls'].returned
       /\ calls'[ncalls'].doneCount = 1
       /\ calls'[ncalls'].doneStatus = calls'[ncalls'].layout
       /\ ~calls'[ncalls'].allocated
       /\ calls'[ncalls'].enq = 0
       /\ UNCHANGED <<queue, xla, mem, pc>>]_vars

C7_Witness ==
  \E c \in CallIds :
    /\ IsH2D(c) /\ calls[c].layout # OK /\ calls[c].returned
    /\ ~xla[calls[c].h].has_shaped_buffer

\* A raw call whose BlockHostUntilDone returned an error.
DrainFailed(c) ==
  /\ ~calls[c].literal /\ calls[c].drained /\ calls[c].block_status # "none"

\* C8: when the drain of the host->device stream fails in a raw
\* CopyCPUTensorToDevice, done gets an Internal error naming the host->device
\* stream and carrying the drain's error, the host tensor is not cached in the
\* XlaTensor and the XlaTensor has no definition event.
C8_H2DDrainFailure ==
  \A c \in CallIds :
    (IsH2D(c) /\ DrainFailed(c)) =>
      /\ calls[c].doneCount = 1
      /\ calls[c].doneStatus =
           Status("Internal", host_to_device_stream_, calls[c].block_status)
      /\ xla[calls[c].h].host_tensor_by # c
      /\ xla[calls[c].h].definition_event = NoEvent

C8_Witness ==
  \E c \in CallIds :
    /\ IsH2D(c) /\ DrainFailed(c) /\ calls[c].returned
    /\ stream_ # host_to_device_stream_

\* C9: when the drain of the device->host stream fails in a raw
\* CopyDeviceTensorToCPU, the error done gets names the device->host stream.
C9_D2HDrainFailureNamesD2HStream ==
  \A c \in CallIds :
    (IsD2H(c) /\ DrainFailed(c)) =>
      /\ calls[c].doneCount = 1
      /\ calls[c].doneStatus.code # "OK"
      /\ calls[c].doneStatus.stream = device_to_host_stream_

AllKinds ==
  TransferKinds \cup {"record", "wait", "host_callback", "kernel"}

\* C10: the reference a structured CopyCPUTensorToDevice takes on the host
\* tensor is released once, after the transfer has executed: it is never
\* released twice or early, and it is no longer held once the call has
\* returned and nothing of the call is pending on a stream.
C10_HostReferenceReleasedOnce ==
  \A c \in CallIds :
    (IsH2D(c) /\ calls[c].literal) =>
      /\ calls[c].unrefs <= 1
      /\ calls[c].unrefs = 1 => c \in completed
      /\ (calls[c].returned /\ Pending(queue, c, AllKinds) = {}) => calls[c].refs = 0

\* A structured CopyDeviceTensorToCPU of a device tensor with elements.
LiteralRead(c) == IsD2H(c) /\ calls[c].literal /\ ~calls[c].empty

\* C11: a non-empty structured CopyDeviceTensorToCPU returns without blocking
\* on a stream and without calling done; done is called once, by the
\* transfer's completion callback, with the status the transfer reported, and
\* the reference taken on the device tensor is released once, in that
\* callback, before done runs.
C11_LiteralReadCompletesInCallback ==
  \A c \in CallIds :
    LiteralRead(c) =>
      /\ calls[c].returned \/ pc = "aborted"
      /\ calls[c].doneCount <= 1 /\ calls[c].unrefs <= 1
      /\ calls[c].doneCount = 1 =>
           /\ ~calls[c].doneBeforeReturn
           /\ calls[c].doneStatus = calls[c].reported
           /\ calls[c].unrefs = 1 /\ calls[c].refsAtDone = 0
           /\ calls[c].pendingAtDone = 0
      /\ (calls[c].returned /\ Pending(queue, c, TransferKinds) # {}) =>
           (calls[c].doneCount = 0 /\ calls[c].refs = 1 /\ calls[c].unrefs = 0)
      /\ (calls[c].returned /\ Pending(queue, c, TransferKinds) = {}) =>
           (calls[c].doneCount = 1 /\ calls[c].refs = 0)

C11_Witness ==
  \E c \in CallIds :
    /\ LiteralRead(c) /\ calls[c].doneCount = 1 /\ calls[c].unrefs = 1
    /\ calls[c].doneStatus = Status("Internal", 0, "dma_fault")

\* A CopyCPUTensorToDevice of a host tensor with elements whose done got OK.
CopyToDeviceOK(c) ==
  /\ IsH2D(c) /\ ~calls[c].empty
  /\ calls[c].doneCount = 1 /\ calls[c].doneStatus = OK

\* The host->device transfer of call c has been issued: it is pending on the
\* host->device stream or it has executed.
Issued(c) ==
  \/ c \in completed
  \/ \E i \in DOMAIN queue[host_to_device_stream_] :
       /\ queue[host_to_device_stream_][i].c = c
       /\ queue[host_to_device_stream_][i].k \in {"memcpy_h2d", "literal_h2d"}

\* C12 as stated: in both modes done(OK) of a non-empty CopyCPUTensorToDevice
\* is never called while the call's host->device transfer is pending.
C12_DoneOKAfterCompletion ==
  \A c \in CallIds : CopyToDeviceOK(c) => calls[c].pendingAtDone = 0

\* C12, amended: done(OK) of a non-empty CopyCPUTensorToDevice is called only
\* for a copy that was issued on the host->device stream, before the call
\* returns; in raw mode only once the copy has executed, in structured mode
\* as soon as it is enqueued, with the definition event attached in the
\* multi-stream configuration.
C12_DoneOKAfterIssue ==
  \A c \in CallIds :
    CopyToDeviceOK(c) =>
      /\ Issued(c) /\ calls[c].doneBeforeReturn
      /\ ~calls[c].literal => (calls[c].pendingAtDone = 0 /\ c \in completed)
      /\ (calls[c].literal /\ UseMultipleStreams) =>
           calls[c].event = DefinitionEvent(c)

C12_Witness ==
  \E c \in CallIds :
    /\ CopyToDeviceOK(c) /\ calls[c].literal /\ calls[c].returned
    /\ c \notin completed /\ calls[c].pendingAtDone = 1

\* A structured CopyCPUTensorToDevice, multi-stream configuration, whose
\* completion event failed to initialise.
EventInitFailed(c) ==
  /\ IsH2D(c) /\ calls[c].literal /\ UseMultipleStreams
  /\ calls[c].event_init = "failed"

\* C13 as stated: when the completion event fails to initialise the call
\* aborts: it never returns, done is never called for it, and no transfer of
\* the call is left issued on a handle that did not get its definition event.
C13_EventInitFailureAborts ==
  \A c \in CallIds :
    EventInitFailed(c) =>
      /\ ~calls[c].returned
      /\ calls[c].doneCount = 0
      /\ Pending(queue, c, {"literal_h2d"}) = {}

\* C13, amended: when the completion event fails to initialise the call
\* returns after calling done once with the Internal error of the check; the
\* transfer it issued stays issued, the handle does not get a definition
\* event of this call, no event of the call is recorded on a stream and the
\* host tensor is not cached.
C13_EventInitFailureIsReturned ==
  \A c \in CallIds :
    EventInitFailed(c) =>
      /\ calls[c].returned /\ calls[c].doneCount = 1 /\ calls[c].doneBeforeReturn
      /\ calls[c].doneStatus = Status("Internal", 0, "Event failed to initialize!")
      /\ Issued(c)
      /\ calls[c].event # DefinitionEvent(c)
      /\ xla[calls[c].h].definition_event # DefinitionEvent(c)
      /\ DefinitionEvent(c) \notin fired
      /\ \A s \in StreamIds : \A i \in DOMAIN queue[s] :
           queue[s][i].e # DefinitionEvent(c)
      /\ xla[calls[c].h].host_tensor_by # c

C13_Witness ==
  \E c \in CallIds :
    /\ EventInitFailed(c) /\ calls[c].returned
    /\ Pending(queue, c, {"literal_h2d"}) # {}
    /\ xla[calls[c].h].definition_event = NoEvent

\* A step in which CopyCPUTensorToDevice is called and binding the device
\* buffer fails.
AllocationFailureStep ==
  /\ ncalls' = ncalls + 1
  /\ calls'[ncalls'].alloc # OK

\* C14: when AllocateShapedBuffer fails in a non-empty CopyCPUTensorToDevice,
\* done gets the allocation's error, the XlaTensor stays without a device
\* buffer, nothing is enqueued on any stream and the host tensor is not
\* cached.
C14_AllocationFailureLeavesHandleEmpty ==
  [][AllocationFailureStep =>
       /\ ~calls'[ncalls'].empty
       /\ calls'[ncalls'].returned
       /\ calls'[ncalls'].doneCount = 1
       /\ calls'[ncalls'].doneStatus = calls'[ncalls'].alloc
       /\ ~xla[calls'[ncalls'].h].has_shaped_buffer
       /\ ~xla'[calls'[ncalls'].h].has_shaped_buffer
       /\ xla'[calls'[ncalls'].h].host_tensor_by # ncalls'
       /\ calls'[ncalls'].enq = 0
       /\ UNCHANGED <<queue, xla, mem, pc>>]_vars

C14_Witness ==
  \E c \in CallIds :
    /\ IsH2D(c) /\ calls[c].returned
    /\ calls[c].doneStatus = Status("ResourceExhausted", 0, "AllocateShapedBuffer")
    /\ xla[calls[c].h] = EmptyXlaTensor

\* Kernels the compute stream has executed.
KernelsExecuted ==
  kernels - Cardinality({i \in DOMAIN queue[stream_] : queue[stream_][i].k = "kernel"})

\* A structured CopyCPUTensorToDevice that reached TransferLiteralToDevice's
\* stream calls while the buffer was not known to be accessible.
MustWaitForCompute(c) ==
  /\ IsH2D(c) /\ calls[c].literal /\ ~calls[c].empty
  /\ ~calls[c].access_now /\ calls[c].enq > 0

\* While the transfer of call c is pending, a wait for the call's dependency
\* event is ahead of it on the host->device stream unless the event has fired,
\* and the event fires only after the kernels launched before the call.
TransferBehindComputeWait(c) ==
  LET q == queue[host_to_device_stream_]
  IN /\ \A i \in DOMAIN q :
          (q[i].c = c /\ q[i].k = "literal_h2d") =>
            \/ DependencyEvent(c) \in fired
            \/ \E j \in 1..(i - 1) : q[j].k = "wait" /\ q[j].e = DependencyEvent(c)
     /\ DependencyEvent(c) \in fired => KernelsExecuted >= calls[c].kernels_before

\* No wait and no dependency event exist on any stream.
NoComputeWait ==
  /\ \A c \in CallIds : DependencyEvent(c) \notin fired
  /\ \A s \in StreamIds : \A i \in DOMAIN queue[s] :
       queue[s][i].e.kind # "dependency"

\* C15: structured mode.  Multi-stream configuration: when the buffer is not
\* known to be accessible now, the host->device stream is made to wait for
\* the compute stream before the transfer is enqueued, and the transfer
\* executes only after the kernels that were launched before the call.
\* Single-stream configuration: no such wait is ever enqueued.
C15_TransferWaitsForComputeStream ==
  [][/\ UseMultipleStreams =>
          \A c \in CallIds :
            MustWaitForCompute(c)' =>
              /\ TransferBehindComputeWait(c)'
              /\ (c \notin completed /\ c \in completed') =>
                   KernelsExecuted >= calls[c].kernels_before
     /\ ~UseMultipleStreams => NoComputeWait']_vars

C15_Witness ==
  \E c \in CallIds :
    /\ UseMultipleStreams /\ MustWaitForCompute(c)
    /\ calls[c].kernels_before = 1 /\ c \in completed

\* C16 as stated: a definition event an XlaTensor has is never replaced.
C16_DefinitionEventNeverReplaced ==
  [][\A h \in Handles :
       xla[h].definition_event # NoEvent =>
         xla'[h].definition_event = xla[h].definition_event]_vars

\* The step is a non-empty structured CopyCPUTensorToDevice on h, and done
\* got OK.
LiteralCopyOKStep(h) ==
  /\ ncalls' = ncalls + 1
  /\ calls'[ncalls'].h = h
  /\ \E c \in CallIds : c = ncalls + 1 /\ LiteralCopyOK(c)'

\* C16, amended: structured mode, multi-stream configuration: every
\* successful non-empty CopyCPUTensorToDevice gives the XlaTensor a definition
\* event of its own, replacing the one an earlier call set; nothing else
\* changes or removes an XlaTensor's definition event.
C16_DefinitionEventOfLastCopy ==
  [][(transfer_as_literal_ /\ UseMultipleStreams) =>
       \A h \in Handles :
         IF LiteralCopyOKStep(h)
           THEN /\ xla'[h].definition_event = DefinitionEvent(ncalls')
                /\ xla'[h].streams_defined_on = {host_to_device_stream_}
           ELSE xla'[h].definition_event = xla[h].definition_event]_vars

C16_Witness ==
  \E h \in Handles :
    /\ transfer_as_literal_ /\ UseMultipleStreams
    /\ LiteralCopyOK(1) /\ calls[1].event = DefinitionEvent(1)
    /\ LiteralCopyOK(2) /\ calls[2].h = h
    /\ xla[h].definition_event = DefinitionEvent(2)

\* C17: raw byte-copy mode: whatever calls were made and however they ended,
\* no XlaTensor has a definition event, no event has been recorded and no
\* recording of or wait for an event is enqueued on any stream.
C17_RawModeHasNoEvents ==
  ~transfer_as_literal_ =>
    /\ \A h \in Handles :
         xla[h].definition_event = NoEvent /\ xla[h].streams_defined_on = {}
    /\ fired = {}
    /\ \A s \in StreamIds : \A i \in DOMAIN queue[s] :
         queue[s][i].k \notin {"record", "wait"} /\ queue[s][i].e = NoEvent
    /\ \A c \in CallIds : calls[c].event = NoEvent

C17_Witness ==
  /\ ~transfer_as_literal_ /\ UseMultipleStreams
  /\ IsH2D(1) /\ RawTransfer(1) /\ calls[1].doneStatus = OK /\ calls[1].returned
  /\ IsD2H(2) /\ RawTransfer(2) /\ calls[2].doneStatus # OK /\ calls[2].returned

\* C18: every CopyCPUTensorToDevice calls done exactly once, before it
\* returns, whichever way it ends: done is never called twice, a call that
\* has returned has called it, and it was called from within the call.
C18_CopyToDeviceCallsDoneOnce ==
  \A c \in CallIds :
    IsH2D(c) =>
      /\ calls[c].doneCount <= 1
      /\ calls[c].returned => calls[c].doneCount = 1
      /\ calls[c].doneCount = 1 => (calls[c].doneBeforeReturn /\ calls[c].returned)
      /\ ~calls[c].returned => pc = "h2d_block"

C18_Witness ==
  /\ IsH2D(1) /\ calls[1].returned
  /\ calls[1].doneStatus = Status("Internal", 0, "TransferLiteralToDeviceAsync")
  /\ IsH2D(2) /\ calls[2].returned /\ ~calls[2].empty /\ calls[2].doneStatus = OK

\* A structured CopyCPUTensorToDevice whose host tensor has elements, but not
\* as many as the layout-resolved shape: Tensor::CopyFrom fails.
ReshapeFails(c) ==
  /\ IsH2D(c) /\ calls[c].literal /\ ~calls[c].empty
  /\ calls[c].layout = OK /\ calls[c].alloc = OK
  /\ calls[c].cpu.n # calls[c].shape

\* C19: structured mode: when Tensor::CopyFrom fails, done gets an Internal
\* error, nothing is enqueued on any stream, the XlaTensor's definition event
\* and cached host tensor stay as they were, and a device buffer the call
\* bound before the failure stays bound.
C19_ReshapeFailureStopsTheCopy ==
  [][\A c \in CallIds :
       (ncalls' = c /\ ncalls = c - 1 /\ ReshapeFails(c)') =>
         LET h == calls'[c].h
         IN /\ calls'[c].returned
            /\ calls'[c].doneCount = 1
            /\ calls'[c].doneStatus = Status("Internal", 0, "Tensor::CopyFrom")
            /\ calls'[c].enq = 0
            /\ UNCHANGED <<queue, pc, fired>>
            /\ xla'[h].definition_event = xla[h].definition_event
            /\ xla'[h].host_tensor = xla[h].host_tensor
            /\ xla'[h].host_tensor_by = xla[h].host_tensor_by
            /\ xla'[h].has_shaped_buffer = (xla[h].has_shaped_buffer \/ calls'[c].allocated)
            /\ calls'[c].allocated =>
                 (xla'[h].shape = calls'[c].shape /\ Len(mem'[h]) = calls'[c].shape)]_vars

C19_Witness ==
  \E c \in CallIds :
    /\ ReshapeFails(c) /\ calls[c].returned /\ calls[c].allocated
    /\ xla[calls[c].h].has_shaped_buffer
    /\ xla[calls[c].h].definition_event = NoEvent

====
